---------------------------- MODULE Spec2Model ----------------------------
(***************************************************************************)
(* A model of the iris message-transmission framework (src/iris).          *)
(*                                                                         *)
(* The code is modelled statement by statement with Python's run-time      *)
(* semantics: a name that is neither a local, a module global nor a        *)
(* builtin raises NameError when it is evaluated, an attribute that the    *)
(* object does not have raises AttributeError, and an exception that no    *)
(* enclosing handler names leaves the function (and ends the thread that   *)
(* runs it).  Two headers are not valid Python 3 as written                *)
(* (engine.py:88, a parameter without default after one with a default;    *)
(* translator.py:52, "except A, B as e"); they are read as the parameter   *)
(* list and the exception tuple they spell out, so that the bodies under   *)
(* them can be modelled at all.                                            *)
(*                                                                         *)
(* The specifications of the module, one per component:                    *)
(*   Spec      the lifecycle of one SequentialUDPEngine driven by          *)
(*             concurrent callers (plus the public calls of a              *)
(*             ThreadedUDPEngine), FairSpec the same with fair threads,    *)
(*             RaceSpec the same engine under three callers;               *)
(*   CtorSpec  BaseUDPEngine.__init__ applied to every argument tuple;     *)
(*   RegSpec   the operation registry of a Translator;                     *)
(*   TransSpec start(), _run() and stop() of a Translator between a        *)
(*             producer and a consumer of its queues;                      *)
(*   QueueSpec one MessageQueue or LockMessageQueue and its callers;       *)
(*   MsgSpec   to_binary / from_binary and construction of messages;       *)
(*   IrisSpec  send_message / receive_message over Iris's four queues;     *)
(*   DualSpec  ThreadedUDPEngine._run, called directly, with its sending   *)
(*             and its receiving thread and the driver of its run flag.    *)
(* Objects whose constructor cannot complete as written are taken in the   *)
(* state the last line of that constructor is written to establish, so     *)
(* that their methods can be examined; the constructors are modelled on    *)
(* their own (CtorSpec, MsgConstruct).                                     *)
(***************************************************************************)
EXTENDS Integers, Sequences, FiniteSets, TLC

VARIABLES
    \* ---- SequentialUDPEngine instance -------------------------------
    status,        \* self.status
    run_flag,      \* self._run_flag: "UNSET" until the first start()
    pc,            \* per caller thread: the statement it is about to run
    out_source,    \* outbound source: the messages get_message() will yield
    inc_dest,      \* inbound destination: the messages handed to add_message()
    net_in,        \* datagrams waiting on the listen endpoint
    wire,          \* datagrams handed to sendto() on the send endpoint
    closed,        \* per endpoint: number of close() calls (saturating)
    send_is_listen,\* single-socket mode: _send_endp is _listen_endp
    outcome,       \* how the call that ended in the last step ended, if any
    \* ---- ThreadedUDPEngine instance ---------------------------------
    th_status,     \* self.status
    th_run_flag,   \* self._run_flag: "UNSET" while the attribute is missing
    th_send_flag,  \* self._send_flag
    th_rcv_flag,   \* self._rcv_flag
    th_pc,         \* the statement of _run its caller is about to run
    act_pc,        \* per activity thread of _run: where it is
    act_exc,       \* per activity thread: how it ended, if it has
    th_outcome,    \* how the _run call that ended in the last step ended
    \* ---- BaseUDPEngine.__init__ -------------------------------------
    ctor,          \* the last construction: its arguments and what it left
    blocking,      \* per candidate endpoint: is the socket in blocking mode
    \* ---- Translator registry ----------------------------------------
    operations,    \* self.operations
    reg_call,      \* the last registry call and how it ended
    \* ---- Translator lifecycle and loop ------------------------------
    tr_status,     \* self.status
    tr_run_flag,   \* self._run_flag: "UNSET" until the first start()
    tr_pc,         \* per caller thread: the statement it is about to run
    tr_todo,       \* per thread: keys the running `for op in ...` has left
    tr_op,         \* per thread: the loop variable `op`
    tr_message,    \* per thread: the local `message` of _run
    queues,        \* per queue object: its _messages list
    tr_outcome,    \* how the translator call that ended in the last step ended
    \* ---- one MessageQueue / LockMessageQueue -------------------------
    q_class,       \* the class of the queue object
    q_messages,    \* self._messages
    q_lock,        \* self._lock: "free" or the thread that holds it
    q_pc,          \* per thread: the statement of the queue it is about to run
    q_local,       \* per thread: `message` of add_message / the value to return
    q_added,       \* history: the messages appended, in order
    q_got,         \* history: the messages popped, in order
    q_outcome,     \* how the queue call that ended in the last step ended
    \* ---- one message object -----------------------------------------
    msg_obj,           \* its payload, address and mode
    msg_orig,      \* the message as it was built
    msg_outcome,   \* how the last call on the message (or construction) ended
    \* ---- Iris: its four queues --------------------------------------
    iris_inc_mq,   \* self._inc_mq: inbound, application level
    iris_inc_mq_b, \* self._inc_mq_b: inbound, wire level
    iris_out_mq,   \* self._out_mq: outbound, application level
    iris_out_mq_b, \* self._out_mq_b: outbound, wire level
    iris_outcome   \* how the last send_message / receive_message ended

engineVars == <<status, run_flag, pc, out_source, inc_dest, net_in, wire,
                closed, send_is_listen, outcome, th_status>>
ctorVars   == <<ctor, blocking>>
regVars    == <<operations, reg_call>>
transVars  == <<tr_status, tr_run_flag, tr_pc, tr_todo, tr_op, tr_message,
                queues, tr_outcome>>
queueVars  == <<q_class, q_messages, q_lock, q_pc, q_local, q_added, q_got,
                q_outcome>>
msgVars    == <<msg_obj, msg_orig, msg_outcome>>
irisVars   == <<iris_inc_mq, iris_inc_mq_b, iris_out_mq, iris_out_mq_b,
                iris_outcome>>
dualVars   == <<th_run_flag, th_send_flag, th_rcv_flag, th_pc, act_pc,
                act_exc, th_outcome>>
restVars   == <<transVars, queueVars, msgVars, irisVars, dualVars>>
vars       == <<engineVars, ctorVars, regVars, restVars>>

---------------------------------------------------------------------------
(* Bounds of the model                                                     *)

\* longest outbound queue the application builds up
MaxQueue == 1
\* most datagrams waiting on the listen endpoint
MaxDatagrams == 1
\* close() calls counted per endpoint; the count saturates here
MaxCloses == 2

\* the threads that call the engine's public methods
Callers == {"t1", "t2", "t3"}
TwoCallers == {"t1", "t2"}

---------------------------------------------------------------------------
(* Program constants                                                       *)

CREATED  == 0
RUNNING  == 1
STOPPED  == 2
SHUTDOWN == 3

\* names bound in module engine by its import statement
EngineImports == {"EngineError", "EngineInitError", "EngineEndpointError",
                  "EngineMsgDestError", "EngineMsgSourceError",
                  "EngineStartError", "EngineRunError", "EngineFlagError"}

\* `raise Name(...)` evaluated in module engine: the exception that leaves
EngineRaise(name) == IF name \in EngineImports THEN name ELSE "NameError"

\* messages: a payload and the address it is for / came from
Messages == {[payload |-> "p1", address |-> "a1"],
             [payload |-> "p2", address |-> "a2"]}

Min(a, b) == IF a < b THEN a ELSE b

NoOutcome == [op |-> "none", exc |-> "none"]
Done(o, e) == [op |-> o, exc |-> e]


---------------------------------------------------------------------------
(* SequentialUDPEngine: the send and the receive step                      *)

\* the endpoint shutdown() and _send_payload() reach through _send_endp
SendEndp == IF send_is_listen THEN "L" ELSE "S"

\* _send_message(self, message) reads `msg.payload`: is `msg` a name bound
\* in that function?  (the parameter is called `message`; no global `msg`)
MsgBoundInSendMessage == FALSE

\* _send_payload: sendto() on the send endpoint under transmission fault
\* `fault` ("none", "gaierror", "OSError"); both handlers raise
\* EngineSendError, a name module engine does not bind
SendPayload(fault) ==
    IF fault = "none" THEN "ok" ELSE EngineRaise("EngineSendError")

\* _send_message: the argument expressions are evaluated before the call
SendMessage(fault) ==
    IF MsgBoundInSendMessage THEN SendPayload(fault) ELSE "NameError"

\* _send: what leaves `try: self._send_message(msg)` with its handler
\* `except EngineSendError as e: raise e`: matching an exception in flight
\* evaluates the handler's name, which is unbound, so NameError leaves;
\* were it bound, the handler would re-raise what it caught
SendExc(fault) ==
    LET r == SendMessage(fault)
    IN  IF r = "ok" THEN "ok"
        ELSE IF "EngineSendError" \in EngineImports THEN r ELSE "NameError"

\* _receive_data: recvfrom(1500) on the non-blocking listen endpoint.
\* "OSError": the endpoint is closed; "NonePair": BlockingIOError was caught
\* and (None, None) returned; "None": a datagram was read and the function
\* ended without a return statement
ReceiveData(has_data, is_closed) ==
    IF is_closed THEN "OSError"
    ELSE IF has_data THEN "None" ELSE "NonePair"

\* _receive_message: `payload, addr = self._receive_data()` cannot unpack
\* None; with (None, None) the payload is falsy and None is returned
ReceiveMessage(ret) ==
    CASE ret = "OSError"  -> "OSError"
      [] ret = "None"     -> "TypeError"
      [] ret = "NonePair" -> "no_message"

\* a thread's call ends: with `exc` raised out of it, or normally ("ok")
Finish(t, op, exc) ==
    /\ pc' = [pc EXCEPT ![t] = "idle"]
    /\ outcome' = Done(op, exc)

\* a thread moves on inside its call: no call ended in this step
Goto(t, label) ==
    /\ pc' = [pc EXCEPT ![t] = label]
    /\ outcome' = NoOutcome

\* one _send() call of the loop (line 208)
Send(t) ==
    /\ pc[t] = "send"
    /\ IF out_source = <<>>
       THEN /\ Goto(t, "receive")
            /\ UNCHANGED <<out_source, wire>>
       ELSE \E fault \in {"none", "gaierror", "OSError"} :
            LET msg == Head(out_source)
                exc == SendExc(fault)
            IN  /\ out_source' = Tail(out_source)
                /\ wire' = IF MsgBoundInSendMessage /\ fault = "none"
                           THEN Append(wire, msg) ELSE wire
                /\ IF exc = "ok"
                   THEN Goto(t, "receive")
                   ELSE Finish(t, "start", exc)
    /\ UNCHANGED <<status, run_flag, inc_dest, net_in, closed,
                   send_is_listen, th_status, ctorVars, regVars, restVars>>

\* one _receive() call of the loop (line 209)
Receive(t) ==
    /\ pc[t] = "receive"
    /\ LET ret == ReceiveData(net_in # <<>>, closed["L"] > 0)
           res == ReceiveMessage(ret)
       IN  /\ net_in' = IF ret = "None" THEN Tail(net_in) ELSE net_in
           /\ IF res = "no_message"
              THEN Goto(t, "loop_test")
              ELSE Finish(t, "start", res)
    /\ UNCHANGED <<status, run_flag, out_source, inc_dest, wire, closed,
                   send_is_listen, th_status, ctorVars, regVars, restVars>>

---------------------------------------------------------------------------
(* SequentialUDPEngine: start / _run                                       *)

\* start(), line 190: the status test
StartCall(t) ==
    /\ pc[t] = "idle"
    /\ IF status \in {CREATED, STOPPED}
       THEN Goto(t, "start_set_flag")
       ELSE Finish(t, "start", EngineRaise("EngineStartError"))
    /\ UNCHANGED <<status, run_flag, out_source, inc_dest, net_in, wire,
                   closed, send_is_listen, th_status, ctorVars, regVars, restVars>>

\* start(), line 191
StartSetFlag(t) ==
    /\ pc[t] = "start_set_flag"
    /\ run_flag' = "TRUE"
    /\ Goto(t, "run_check")
    /\ UNCHANGED <<status, out_source, inc_dest, net_in, wire, closed,
                   send_is_listen, th_status, ctorVars, regVars, restVars>>

\* _run(), line 205
RunCheck(t) ==
    /\ pc[t] = "run_check"
    /\ IF run_flag = "TRUE"
       THEN Goto(t, "run_set_status")
       ELSE Finish(t, "start", EngineRaise("EngineRunError"))
    /\ UNCHANGED <<status, run_flag, out_source, inc_dest, net_in, wire,
                   closed, send_is_listen, th_status, ctorVars, regVars, restVars>>

\* _run(), line 206
RunSetStatus(t) ==
    /\ pc[t] = "run_set_status"
    /\ status' = RUNNING
    /\ Goto(t, "loop_test")
    /\ UNCHANGED <<run_flag, out_source, inc_dest, net_in, wire, closed,
                   send_is_listen, th_status, ctorVars, regVars, restVars>>

\* _run(), line 207: the loop condition
LoopTest(t) ==
    /\ pc[t] = "loop_test"
    /\ IF run_flag = "TRUE"
       THEN Goto(t, "send")
       ELSE Goto(t, "run_set_stopped")
    /\ UNCHANGED <<status, run_flag, out_source, inc_dest, net_in, wire,
                   closed, send_is_listen, th_status, ctorVars,
                   regVars, restVars>>

\* _run(), line 211: the loop's else clause; start() then returns
RunSetStopped(t) ==
    /\ pc[t] = "run_set_stopped"
    /\ status' = STOPPED
    /\ Finish(t, "start", "ok")
    /\ UNCHANGED <<run_flag, out_source, inc_dest, net_in, wire, closed,
                   send_is_listen, th_status, ctorVars, regVars, restVars>>

---------------------------------------------------------------------------
(* SequentialUDPEngine: stop                                               *)

\* stop(), line 219: the status test, made at label `at` on behalf of the
\* public call `op` (stop() itself, or shutdown() calling self.stop())
StopCheckAt(t, at, next, op) ==
    /\ pc[t] = at
    /\ IF status = RUNNING
       THEN Goto(t, next)
       ELSE Finish(t, op, EngineRaise("EngineStopError"))
    /\ UNCHANGED <<status, run_flag, out_source, inc_dest, net_in, wire,
                   closed, send_is_listen, th_status, ctorVars, regVars, restVars>>

\* stop(), line 220
StopClearAt(t, at, next) ==
    /\ pc[t] = at
    /\ run_flag' = "FALSE"
    /\ Goto(t, next)
    /\ UNCHANGED <<status, out_source, inc_dest, net_in, wire, closed,
                   send_is_listen, th_status, ctorVars, regVars, restVars>>

\* a public stop() call
StopCall(t)  == StopCheckAt(t, "idle", "stop_clear", "stop")
StopClear(t) == StopClearAt(t, "stop_clear", "stop_wait")

\* stop(), lines 221-222: the poll finds the status STOPPED and stop()
\* returns (while it is anything else the caller sleeps and polls again)
StopReturn(t) ==
    /\ pc[t] = "stop_wait"
    /\ status = STOPPED
    /\ Finish(t, "stop", "ok")
    /\ UNCHANGED <<status, run_flag, out_source, inc_dest, net_in, wire,
                   closed, send_is_listen, th_status, ctorVars, regVars, restVars>>

---------------------------------------------------------------------------
(* SequentialUDPEngine: shutdown                                           *)

\* shutdown(), line 229
ShutdownCall(t) ==
    /\ pc[t] = "idle"
    /\ IF status = RUNNING
       THEN Goto(t, "sd_stop")
       ELSE Goto(t, "sd_check")
    /\ UNCHANGED <<status, run_flag, out_source, inc_dest, net_in, wire,
                   closed, send_is_listen, th_status, ctorVars,
                   regVars, restVars>>

\* shutdown(), line 230: self.stop(), whose exception leaves shutdown()
ShutdownStopCheck(t) == StopCheckAt(t, "sd_stop", "sd_stop_clear", "shutdown")
ShutdownStopClear(t) == StopClearAt(t, "sd_stop_clear", "sd_stop_wait")

ShutdownStopReturn(t) ==
    /\ pc[t] = "sd_stop_wait"
    /\ status = STOPPED
    /\ Goto(t, "sd_check")
    /\ UNCHANGED <<status, run_flag, out_source, inc_dest, net_in, wire,
                   closed, send_is_listen, th_status, ctorVars,
                   regVars, restVars>>

\* shutdown(), line 231 (and 236 when the test fails)
ShutdownCheck(t) ==
    /\ pc[t] = "sd_check"
    /\ IF status \in {STOPPED, CREATED}
       THEN Goto(t, "sd_close_listen")
       ELSE Finish(t, "shutdown", EngineRaise("EngineShutdownError"))
    /\ UNCHANGED <<status, run_flag, out_source, inc_dest, net_in, wire,
                   closed, send_is_listen, th_status, ctorVars, regVars, restVars>>

\* socket.close(): legal on a closed socket too; the count saturates
Close(e) == closed' = [closed EXCEPT ![e] = Min(@ + 1, MaxCloses)]

\* shutdown(), line 232
ShutdownCloseListen(t) ==
    /\ pc[t] = "sd_close_listen"
    /\ Close("L")
    /\ Goto(t, "sd_close_send")
    /\ UNCHANGED <<status, run_flag, out_source, inc_dest, net_in, wire,
                   send_is_listen, th_status, ctorVars, regVars, restVars>>

\* shutdown(), line 233
ShutdownCloseSend(t) ==
    /\ pc[t] = "sd_close_send"
    /\ Close(SendEndp)
    /\ Goto(t, "sd_set_status")
    /\ UNCHANGED <<status, run_flag, out_source, inc_dest, net_in, wire,
                   send_is_listen, th_status, ctorVars, regVars, restVars>>

\* shutdown(), line 234
ShutdownSetStatus(t) ==
    /\ pc[t] = "sd_set_status"
    /\ status' = SHUTDOWN
    /\ Finish(t, "shutdown", "ok")
    /\ UNCHANGED <<run_flag, out_source, inc_dest, net_in, wire, closed,
                   send_is_listen, th_status, ctorVars, regVars, restVars>>

---------------------------------------------------------------------------
(* ThreadedUDPEngine: its public methods                                   *)

\* the class defines _run, _receiving and _sending only: start, stop and
\* shutdown are BaseEngine's, each `raise NotImplementedError`
ThreadedPublic(t, op) ==
    /\ pc[t] = "idle"
    /\ outcome' = Done(op, "NotImplementedError")
    /\ UNCHANGED <<status, run_flag, pc, out_source, inc_dest, net_in, wire,
                   closed, send_is_listen, th_status, ctorVars, regVars, restVars>>

ThreadedStart(t)    == ThreadedPublic(t, "th_start")
ThreadedStop(t)     == ThreadedPublic(t, "th_stop")
ThreadedShutdown(t) == ThreadedPublic(t, "th_shutdown")

---------------------------------------------------------------------------
(* ThreadedUDPEngine: _run and its two activities                          *)

\* the two threads _run creates, lines 303-306
Activities == {"snd", "rcv"}

\* the methods a ThreadedUDPEngine has: its own three, those of
\* BaseUDPEngine (lines 88-177) and the public three of BaseEngine; _send
\* and _receive are methods of SequentialUDPEngine, not of this class
ThreadedMethods == {"_run", "_receiving", "_sending", "__init__",
                    "_set_listen_endp", "_set_send_endp", "_check_endpoint",
                    "_set_outgoing_message_source",
                    "_set_incoming_messages_destination",
                    "start", "stop", "shutdown"}

\* the flag that gates an activity and the step its loop calls
ActFlag(a) == IF a = "snd" THEN th_send_flag ELSE th_rcv_flag
ActStep(a) == IF a = "snd" THEN "_send" ELSE "_receive"

\* everything the dual-activity run leaves alone
DualOthers == <<status, run_flag, pc, out_source, inc_dest, net_in, wire,
                closed, send_is_listen, outcome, ctorVars, regVars,
                transVars, queueVars, msgVars, irisVars>>

ThGoto(label) ==
    /\ th_pc' = label
    /\ th_outcome' = NoOutcome

ThFinish(exc) ==
    /\ th_pc' = "idle"
    /\ th_outcome' = Done("_run", exc)

\* no method of the class assigns _run_flag (start and stop are
\* BaseEngine's): whoever drives _run sets and clears the attribute, as
\* SequentialUDPEngine.start and stop do for their loop
ThSetRunFlag(v) ==
    /\ th_run_flag # v
    /\ th_run_flag' = v
    /\ th_outcome' = NoOutcome
    /\ UNCHANGED <<th_status, th_send_flag, th_rcv_flag, th_pc, act_pc,
                   act_exc, DualOthers>>

\* _run(), line 302 (and 321), then lines 303-306: two fresh Thread objects
ThRunCall ==
    /\ th_pc = "idle"
    /\ IF th_run_flag = "UNSET"
       THEN ThFinish("AttributeError") /\ UNCHANGED <<act_pc, act_exc>>
       ELSE IF th_run_flag = "FALSE"
       THEN ThFinish(EngineRaise("EngineRunError"))
            /\ UNCHANGED <<act_pc, act_exc>>
       ELSE /\ ThGoto("th_set_send_flag")
            /\ act_pc' = [a \in Activities |-> "new"]
            /\ act_exc' = [a \in Activities |-> "none"]
    /\ UNCHANGED <<th_status, th_run_flag, th_send_flag, th_rcv_flag,
                   DualOthers>>

\* _run(), line 307
ThSetSendFlag ==
    /\ th_pc = "th_set_send_flag"
    /\ th_send_flag' = "TRUE"
    /\ ThGoto("th_set_rcv_flag")
    /\ UNCHANGED <<th_status, th_run_flag, th_rcv_flag, act_pc, act_exc,
                   DualOthers>>

\* _run(), line 308
ThSetRcvFlag ==
    /\ th_pc = "th_set_rcv_flag"
    /\ th_rcv_flag' = "TRUE"
    /\ ThGoto("th_start_send")
    /\ UNCHANGED <<th_status, th_run_flag, th_send_flag, act_pc, act_exc,
                   DualOthers>>

\* _run(), lines 309 and 310: Thread.start()
ThStartAt(at, a, next) ==
    /\ th_pc = at
    /\ act_pc' = [act_pc EXCEPT ![a] = "check"]
    /\ ThGoto(next)
    /\ UNCHANGED <<th_status, th_run_flag, th_send_flag, th_rcv_flag,
                   act_exc, DualOthers>>

ThStartSend == ThStartAt("th_start_send", "snd", "th_start_rcv")
ThStartRcv  == ThStartAt("th_start_rcv", "rcv", "th_set_running")

\* _run(), line 311
ThSetRunning ==
    /\ th_pc = "th_set_running"
    /\ th_status' = RUNNING
    /\ ThGoto("th_supervise")
    /\ UNCHANGED <<th_run_flag, th_send_flag, th_rcv_flag, act_pc, act_exc,
                   DualOthers>>

\* _run(), lines 312-314: the supervising loop sleeps while the flag is
\* set and leaves through its else clause once it finds the flag cleared
ThSupervise ==
    /\ th_pc = "th_supervise"
    /\ th_run_flag # "TRUE"
    /\ ThGoto("th_clear_send")
    /\ UNCHANGED <<th_status, th_run_flag, th_send_flag, th_rcv_flag,
                   act_pc, act_exc, DualOthers>>

\* _run(), line 315
ThClearSend ==
    /\ th_pc = "th_clear_send"
    /\ th_send_flag' = "FALSE"
    /\ ThGoto("th_clear_rcv")
    /\ UNCHANGED <<th_status, th_run_flag, th_rcv_flag, act_pc, act_exc,
                   DualOthers>>

\* _run(), line 316
ThClearRcv ==
    /\ th_pc = "th_clear_rcv"
    /\ th_rcv_flag' = "FALSE"
    /\ ThGoto("th_join_send")
    /\ UNCHANGED <<th_status, th_run_flag, th_send_flag, act_pc, act_exc,
                   DualOthers>>

\* Thread.join() returns without waiting for the thread
JoinedAtOnce(a) == TRUE

\* Thread.join() returns once the thread has terminated - normally or by
\* an exception that nothing caught
Joined(a) == act_pc[a] = "dead"

\* _run(), lines 317 and 318
ThJoinAt(at, a, next) ==
    /\ th_pc = at
    /\ Joined(a)
    /\ ThGoto(next)
    /\ UNCHANGED <<th_status, th_run_flag, th_send_flag, th_rcv_flag,
                   act_pc, act_exc, DualOthers>>

ThJoinSend == ThJoinAt("th_join_send", "snd", "th_join_rcv")
ThJoinRcv  == ThJoinAt("th_join_rcv", "rcv", "th_set_stopped")

\* _run(), line 319, and its return
ThSetStopped ==
    /\ th_pc = "th_set_stopped"
    /\ th_status' = STOPPED
    /\ ThFinish("ok")
    /\ UNCHANGED <<th_run_flag, th_send_flag, th_rcv_flag, act_pc, act_exc,
                   DualOthers>>

\* an activity thread ends
ActDies(a, exc) ==
    /\ act_pc' = [act_pc EXCEPT ![a] = "dead"]
    /\ act_exc' = [act_exc EXCEPT ![a] = exc]

\* _sending / _receiving, lines 336 and 326 (and 340, 330)
ActCheck(a) ==
    /\ act_pc[a] = "check"
    /\ IF ActFlag(a) = "TRUE"
       THEN /\ act_pc' = [act_pc EXCEPT ![a] = "loop"]
            /\ UNCHANGED act_exc
       ELSE ActDies(a, EngineRaise("EngineFlagError"))
    /\ th_outcome' = NoOutcome
    /\ UNCHANGED <<th_status, th_run_flag, th_send_flag, th_rcv_flag, th_pc,
                   DualOthers>>

\* _sending / _receiving, lines 337-338 and 327-328: the loop test, then
\* self._send() / self._receive() looked up on the ThreadedUDPEngine
ActLoop(a) ==
    /\ act_pc[a] = "loop"
    /\ IF ActFlag(a) # "TRUE"
       THEN ActDies(a, "ok")
       ELSE IF ActStep(a) \in ThreadedMethods
       THEN UNCHANGED <<act_pc, act_exc>>
       ELSE ActDies(a, "AttributeError")
    /\ th_outcome' = NoOutcome
    /\ UNCHANGED <<th_status, th_run_flag, th_send_flag, th_rcv_flag, th_pc,
                   DualOthers>>

---------------------------------------------------------------------------
(* The engine's surroundings                                               *)

\* the application (or the translator) puts a message in the outbound source
AppPut(m) ==
    /\ Len(out_source) + Len(wire) < MaxQueue
    /\ out_source' = Append(out_source, m)
    /\ outcome' = NoOutcome
    /\ UNCHANGED <<status, run_flag, pc, inc_dest, net_in, wire, closed,
                   send_is_listen, th_status, ctorVars, regVars, restVars>>

\* a datagram arrives on the (open) listen endpoint
DatagramArrives(d) ==
    /\ closed["L"] = 0
    /\ Len(net_in) + Len(inc_dest) < MaxDatagrams
    /\ net_in' = Append(net_in, d)
    /\ outcome' = NoOutcome
    /\ UNCHANGED <<status, run_flag, pc, out_source, inc_dest, wire, closed,
                   send_is_listen, th_status, ctorVars, regVars, restVars>>

---------------------------------------------------------------------------
(* BaseUDPEngine.__init__                                                  *)

\* candidate endpoint arguments: two UDP sockets, a TCP socket, and an
\* object that is no socket
Sockets   == {"udp1", "udp2", "tcp"}
Endpoints == Sockets \cup {"obj"}
EngineClasses == {"SequentialUDPEngine", "ThreadedUDPEngine"}

\* _check_endpoint: isinstance(endpoint, socket.socket) and
\* endpoint.type == socket.SOCK_DGRAM
CheckEndpoint(e) ==
    IF e \notin Sockets THEN "EngineEndpointError"
    ELSE IF e \notin {"udp1", "udp2"} THEN "EngineEndpointError"
    ELSE "ok"

\* hasattr(self, "_configure_listen_endpoint"): only SequentialUDPEngine
\* defines the hook (it sets the endpoint non-blocking)
HasConfigureHook(cls) == cls = "SequentialUDPEngine"

\* _set_send_endp(self, send_endpoint): its body checks `listen_endpoint`,
\* a name bound neither in the function nor in the module, so the call
\* raises NameError before anything is checked or stored
SetSendEndp(e) == "NameError"

\* the methods __init__ calls next and the methods the class defines:
\* _set_incoming_msg_dest / _set_outgoing_msg_src are called,
\* _set_incoming_messages_destination / _set_outgoing_message_source exist
UDPEngineMethods == {"_set_listen_endp", "_set_send_endp", "_check_endpoint",
                     "_set_outgoing_message_source",
                     "_set_incoming_messages_destination"}
CallMethod(name, result) ==
    IF name \in UDPEngineMethods THEN result ELSE "AttributeError"

\* what `try: ... except EngineEndpointError` around the two endpoint
\* setters lets out
EndpointHandler(exc) ==
    IF exc = "EngineEndpointError" THEN "EngineInitError" ELSE exc

\* the object a construction leaves behind and the exception it raised
Unbuilt == [exc |-> "ok", listen_endp |-> "unset", send_endp |-> "unset",
            inc_dest |-> "unset", out_source |-> "unset",
            status |-> "unset", configured |-> {}]

\* __init__(self, listen_endp, send_endp, inc_dest, out_source): `l` and `s`
\* are the endpoint arguments (s = "None": omitted), `d` / `o` say whether
\* the destination has add_message / the source has get_message
EngineInit(cls, l, s, d, o) ==
    LET lchk == CheckEndpoint(l)
        o1 == IF lchk = "ok"
              THEN [Unbuilt EXCEPT !.listen_endp = l,
                      !.configured = IF HasConfigureHook(cls) THEN {l} ELSE {}]
              ELSE [Unbuilt EXCEPT !.exc = EndpointHandler(lchk)]
        sarg == IF s = "None" THEN l ELSE s
        sres == SetSendEndp(sarg)
        o2 == IF sres = "ok"
              THEN [o1 EXCEPT !.send_endp = sarg]
              ELSE [o1 EXCEPT !.exc = EndpointHandler(sres)]
        dres == CallMethod("_set_incoming_msg_dest",
                           IF d THEN "ok" ELSE "EngineMsgDestError")
        o3 == IF dres = "ok"
              THEN [o2 EXCEPT !.inc_dest = "set"]
              ELSE [o2 EXCEPT !.exc = IF dres = "EngineMsgDestError"
                                      THEN "EngineInitError" ELSE dres]
        ores == CallMethod("_set_outgoing_msg_src",
                           IF o THEN "ok" ELSE "EngineMsgSourceError")
        o4 == IF ores = "ok"
              THEN [o3 EXCEPT !.out_source = "set", !.status = "CREATED"]
              ELSE [o3 EXCEPT !.exc = IF ores = "EngineMsgSourceError"
                                      THEN "EngineInitError" ELSE ores]
    IN  IF o1.exc # "ok" THEN o1
        ELSE IF o2.exc # "ok" THEN o2
        ELSE IF o3.exc # "ok" THEN o3
        ELSE o4

\* one construction attempt
Construct(cls, l, s, d, o) ==
    LET obj == EngineInit(cls, l, s, d, o)
    IN  /\ ctor' = [cls |-> cls, listen |-> l, send |-> s, inc_ok |-> d,
                    out_ok |-> o, obj |-> obj]
        /\ blocking' = [e \in Sockets |->
                          IF e \in obj.configured THEN FALSE ELSE blocking[e]]
        /\ UNCHANGED <<engineVars, regVars, restVars>>

---------------------------------------------------------------------------
(* Translator: the operation registry                                      *)

\* names bound in module translator (its imports)
TranslatorNames == {"threading", "TranslatorError", "TranslatorRegError",
                    "MessageDecodingError", "TranslatorDeregError",
                    "MessageEncodingError"}
\* names every module can read
Builtins == {"hasattr", "type", "str", "Exception"}

TranslatorBound(name) == name \in TranslatorNames \cup Builtins
TranslatorRaise(name) == IF TranslatorBound(name) THEN name ELSE "NameError"

\* argument objects: two queues (get_message and add_message), an object
\* with neither; a function, a callable object that is no function, a
\* non-callable; two hashable keys and a list
QueueArgs == {"q1", "q2", "x"}
OperationArgs == {"fn", "callable", "value"}
KeyArgs == {"k1", "k2", "list"}

HasQueueInterface(q) == q \in {"q1", "q2"}
Hashable(k) == k \in {"k1", "k2"}

\* _check_interface(object, attr=...)
CheckInterfaceAttr(has) ==
    IF has THEN "ok" ELSE TranslatorRaise("TranslatorInterfaceError")

\* _check_operation_key: hasattr(op_key, "__hash__") and "__eq__": a list
\* has both attributes (its __hash__ is None), so every key passes
CheckOperationKey(k) == "ok"

\* the body of register_operation's try block, lines 48-51
RegisterChecks(i, o, f, k) ==
    LET c1 == CheckInterfaceAttr(HasQueueInterface(i))
        c2 == CheckInterfaceAttr(HasQueueInterface(o))
        c3 == IF ~TranslatorBound("function") THEN "NameError"
              ELSE IF f = "fn" THEN "ok"
              ELSE TranslatorRaise("TranslatorInterfaceError")
    IN  IF c1 # "ok" THEN c1
        ELSE IF c2 # "ok" THEN c2
        ELSE IF c3 # "ok" THEN c3
        ELSE CheckOperationKey(k)

\* the except clauses of register_operation, lines 52-59: matching an
\* exception evaluates the first clause's names, which are unbound
RegisterHandlers(exc) ==
    IF exc = "ok" THEN "ok"
    ELSE IF ~TranslatorBound("TranslatorInputError") THEN "NameError"
    ELSE "TranslatorRegError"

\* _add_operation: the exception it raises ("ok": the triple is stored)
AddOperationExc(ops, k) ==
    IF ~Hashable(k) THEN "TypeError"
    ELSE IF k \notin DOMAIN ops THEN "ok"
    ELSE TranslatorRaise("OperationAddError")

\* self.operations[op_key] = (input, output, operation)
Store(ops, i, o, f, k) ==
    [x \in DOMAIN ops \cup {k} |->
        IF x = k THEN [input |-> i, output |-> o, operation |-> f]
        ELSE ops[x]]

\* register_operation(input, output, operation, op_key)
RegisterOperation(i, o, f, k) ==
    LET chk == RegisterHandlers(RegisterChecks(i, o, f, k))
        exc == IF chk = "ok" THEN AddOperationExc(operations, k) ELSE chk
    IN  /\ operations' = IF exc = "ok" THEN Store(operations, i, o, f, k)
                         ELSE operations
        /\ reg_call' = [op |-> "register", key |-> k, exc |-> exc]
        /\ UNCHANGED <<engineVars, ctorVars, restVars>>

\* _add_operation(input, output, operation, op_key) called on its own
AddOperation(i, o, f, k) ==
    LET exc == AddOperationExc(operations, k)
    IN  /\ operations' = IF exc = "ok" THEN Store(operations, i, o, f, k)
                         ELSE operations
        /\ reg_call' = [op |-> "_add_operation", key |-> k, exc |-> exc]
        /\ UNCHANGED <<engineVars, ctorVars, restVars>>

\* deregister_operation(op_key): the body tests and pops `op_name`, a name
\* bound nowhere
DeregisterExc(ops, k) ==
    IF ~TranslatorBound("op_name") THEN "NameError"
    ELSE IF ~Hashable(k) THEN "TypeError"
    ELSE IF k \in DOMAIN ops THEN "ok"
    ELSE TranslatorRaise("TranslatorDeregError")

DeregisterOperation(k) ==
    LET exc == DeregisterExc(operations, k)
    IN  /\ operations' = IF exc = "ok"
                         THEN [x \in DOMAIN operations \ {k} |-> operations[x]]
                         ELSE operations
        /\ reg_call' = [op |-> "deregister", key |-> k, exc |-> exc]
        /\ UNCHANGED <<engineVars, ctorVars, restVars>>

---------------------------------------------------------------------------
(* Translator: start(), _run() and stop()                                  *)

T_CREATED == 10
T_RUNNING == 11
T_STOPPED == 12

\* the message objects that travel through the translator's queues
TransMsgs == {"m1", "m2"}

\* most messages one queue holds in the model
MaxPending == 2

\* MessageQueue.get_message, lines 31-37: the value returned and the list
\* left behind
QueueHead(msgs) == IF msgs = <<>> THEN "None" ELSE Head(msgs)
QueueRest(msgs) == IF msgs = <<>> THEN <<>> ELSE Tail(msgs)

\* what calling a registered operation WITHOUT arguments can do, line 111:
\* a non-callable raises TypeError; a callable raises TypeError when it
\* requires the message as its parameter (as to_binary / from_binary do),
\* raises an encoding or decoding error, or returns a message or None
CallResults(f) ==
    IF f = "value" THEN {"TypeError"}
    ELSE {"TypeError", "MessageEncodingError", "MessageDecodingError", "None"}
         \cup TransMsgs

\* the handler of _run, lines 113-114, `except MessageError as e: raise e`:
\* matching evaluates MessageError, unbound in module translator; were it
\* bound, a message error would be re-raised and any other exception would
\* pass through
RunHandler(exc) ==
    IF exc = "ok" THEN "ok"
    ELSE IF ~TranslatorBound("MessageError") THEN "NameError"
    ELSE exc

\* add_message(result) on the destination, message_queue.py lines 39-48:
\* only a message passes isinstance; the raise names MessageQueueError,
\* which module message_queue does not bind
DepositExc(dst, r) ==
    IF ~HasQueueInterface(dst) THEN "AttributeError"
    ELSE IF r \in TransMsgs THEN "ok"
    ELSE "NameError"

NoLocals(f, t) == [f EXCEPT ![t] = "none"]

\* a translator call ends: its frame and the frame of _run are gone
TrFinish(t, op, exc) ==
    /\ tr_pc' = [tr_pc EXCEPT ![t] = "idle"]
    /\ tr_outcome' = Done(op, exc)
    /\ tr_todo' = [tr_todo EXCEPT ![t] = {}]
    /\ tr_op' = NoLocals(tr_op, t)
    /\ tr_message' = NoLocals(tr_message, t)

TrGoto(t, label) ==
    /\ tr_pc' = [tr_pc EXCEPT ![t] = label]
    /\ tr_outcome' = NoOutcome

TrOthers == <<engineVars, ctorVars, regVars, queueVars, msgVars, irisVars,
              dualVars>>

\* start(), line 96
TrStartCall(t) ==
    /\ tr_pc[t] = "idle"
    /\ IF tr_status \in {T_CREATED, T_STOPPED}
       THEN /\ TrGoto(t, "tr_set_flag")
            /\ UNCHANGED <<tr_todo, tr_op, tr_message>>
       ELSE TrFinish(t, "start", TranslatorRaise("TranslatorStartError"))
    /\ UNCHANGED <<tr_status, tr_run_flag, queues, TrOthers>>

\* start(), line 97
TrStartSetFlag(t) ==
    /\ tr_pc[t] = "tr_set_flag"
    /\ tr_run_flag' = "TRUE"
    /\ TrGoto(t, "tr_run_check")
    /\ UNCHANGED <<tr_status, tr_todo, tr_op, tr_message, queues, TrOthers>>

\* _run(), line 105 (and 118)
TrRunCheck(t) ==
    /\ tr_pc[t] = "tr_run_check"
    /\ IF tr_run_flag = "TRUE"
       THEN /\ TrGoto(t, "tr_set_status")
            /\ UNCHANGED <<tr_todo, tr_op, tr_message>>
       ELSE TrFinish(t, "start", TranslatorRaise("TranslatorRunError"))
    /\ UNCHANGED <<tr_status, tr_run_flag, queues, TrOthers>>

\* _run(), line 106
TrRunSetStatus(t) ==
    /\ tr_pc[t] = "tr_set_status"
    /\ tr_status' = T_RUNNING
    /\ TrGoto(t, "tr_loop_test")
    /\ UNCHANGED <<tr_run_flag, tr_todo, tr_op, tr_message, queues, TrOthers>>

\* _run(), line 107 and the `for` header of line 108: a pass begins over
\* the keys registered now
TrLoopTest(t) ==
    /\ tr_pc[t] = "tr_loop_test"
    /\ IF tr_run_flag = "TRUE"
       THEN /\ TrGoto(t, "tr_for")
            /\ tr_todo' = [tr_todo EXCEPT ![t] = DOMAIN operations]
       ELSE /\ TrGoto(t, "tr_set_stopped")
            /\ UNCHANGED tr_todo
    /\ UNCHANGED <<tr_status, tr_run_flag, tr_op, tr_message, queues, TrOthers>>

\* _run(), line 108 (next key, or the pass is over) and line 110
TrVisitGet(t) ==
    /\ tr_pc[t] = "tr_for"
    /\ IF tr_todo[t] = {}
       THEN /\ TrGoto(t, "tr_loop_test")
            /\ UNCHANGED <<tr_todo, tr_op, tr_message, queues>>
       ELSE \E k \in tr_todo[t] :
            LET src == operations[k].input
            IN  IF ~HasQueueInterface(src)
                THEN /\ TrFinish(t, "start", RunHandler("AttributeError"))
                     /\ UNCHANGED queues
                ELSE /\ TrGoto(t, "tr_apply")
                     /\ tr_todo' = [tr_todo EXCEPT ![t] = @ \ {k}]
                     /\ tr_op' = [tr_op EXCEPT ![t] = k]
                     /\ tr_message' = [tr_message EXCEPT
                                          ![t] = QueueHead(queues[src])]
                     /\ queues' = [queues EXCEPT ![src] = QueueRest(@)]
    /\ UNCHANGED <<tr_status, tr_run_flag, TrOthers>>

\* _run(), lines 111-112: the operation is called with no argument, does
\* `r`, and whatever it returns is handed to the destination
TrApplyWith(t, r) ==
    /\ tr_pc[t] = "tr_apply"
    /\ r \in CallResults(operations[tr_op[t]].operation)
    /\ LET dst == operations[tr_op[t]].output
           exc == IF r \in TransMsgs \cup {"None"}
                  THEN DepositExc(dst, r) ELSE r
       IN  IF exc = "ok"
           THEN /\ Len(queues[dst]) < MaxPending
                /\ queues' = [queues EXCEPT ![dst] = Append(@, r)]
                /\ TrGoto(t, "tr_for")
                /\ UNCHANGED <<tr_todo, tr_op, tr_message>>
           ELSE /\ TrFinish(t, "start", RunHandler(exc))
                /\ UNCHANGED queues
    /\ UNCHANGED <<tr_status, tr_run_flag, TrOthers>>

\* every outcome an operation can have
AllCallResults ==
    {"TypeError", "MessageEncodingError", "MessageDecodingError", "None"}
    \cup TransMsgs

TrApply(t) == \E r \in AllCallResults : TrApplyWith(t, r)

\* _run(), line 116, and the return of start()
TrRunSetStopped(t) ==
    /\ tr_pc[t] = "tr_set_stopped"
    /\ tr_status' = T_STOPPED
    /\ TrFinish(t, "start", "ok")
    /\ UNCHANGED <<tr_run_flag, queues, TrOthers>>

\* stop(), line 122 (and 127)
TrStopCall(t) ==
    /\ tr_pc[t] = "idle"
    /\ IF tr_status = T_RUNNING
       THEN /\ TrGoto(t, "tr_stop_clear")
            /\ UNCHANGED <<tr_todo, tr_op, tr_message>>
       ELSE TrFinish(t, "stop", TranslatorRaise("TranslatorStopError"))
    /\ UNCHANGED <<tr_status, tr_run_flag, queues, TrOthers>>

\* stop(), line 123
TrStopClear(t) ==
    /\ tr_pc[t] = "tr_stop_clear"
    /\ tr_run_flag' = "FALSE"
    /\ TrGoto(t, "tr_stop_wait")
    /\ UNCHANGED <<tr_status, tr_todo, tr_op, tr_message, queues, TrOthers>>

\* stop(), lines 124-125: the loop condition, then `time.sleep(0.001)`
\* where module translator binds no `time`
TrStopWait(t) ==
    /\ tr_pc[t] = "tr_stop_wait"
    /\ IF tr_status = T_STOPPED
       THEN TrFinish(t, "stop", "ok")
       ELSE IF TranslatorBound("time")
       THEN /\ TrGoto(t, "tr_stop_wait")
            /\ UNCHANGED <<tr_todo, tr_op, tr_message>>
       ELSE TrFinish(t, "stop", "NameError")
    /\ UNCHANGED <<tr_status, tr_run_flag, queues, TrOthers>>

\* the stage before a queue adds a message to it (add_message)
TrPut(q, m) ==
    /\ Len(queues[q]) < MaxPending
    /\ queues' = [queues EXCEPT ![q] = Append(@, m)]
    /\ tr_outcome' = NoOutcome
    /\ UNCHANGED <<tr_status, tr_run_flag, tr_pc, tr_todo, tr_op, tr_message,
                   TrOthers>>

\* the stage after a queue takes its head (get_message)
TrTake(q) ==
    /\ queues[q] # <<>>
    /\ queues' = [queues EXCEPT ![q] = Tail(@)]
    /\ tr_outcome' = NoOutcome
    /\ UNCHANGED <<tr_status, tr_run_flag, tr_pc, tr_todo, tr_op, tr_message,
                   TrOthers>>

---------------------------------------------------------------------------
(* MessageQueue and LockMessageQueue                                       *)
(*                                                                         *)
(* One queue object, of either class, as __init__ is written to leave it   *)
(* (lines 27-28 and 63).  A MessageQueue is used by one call at a time,    *)
(* as its docstring requires; a LockMessageQueue is called by producer     *)
(* and consumer threads concurrently.                                      *)

QueueClasses == {"MessageQueue", "LockMessageQueue"}
Producers == {"p1", "p2"}
Consumers == {"c1", "c2"}
QThreads == Producers \cup Consumers

\* values handed to add_message: an instance of msg_class, an instance of
\* a subclass of it, and an object that is neither
QueueArgsAdd == {"m1", "s1", "other"}

\* most messages the producers add over a run
MaxAdds == 3

\* isinstance(message, self.msg_class), lines 45 and 79
IsInstance(v) == v \in {"m1", "s1"}

\* `not self._messages`, lines 34 and 70
IsEmpty(msgs) == msgs = <<>>

\* self._messages.pop(0), lines 37 and 73: the value and the list left
PopLast(msgs) == [value |-> msgs[Len(msgs)],
                  rest |-> SubSeq(msgs, 1, Len(msgs) - 1)]
PeekOnly(msgs) == [value |-> Head(msgs), rest |-> msgs]
Pop0(msgs) == [value |-> Head(msgs), rest |-> Tail(msgs)]

\* threading.Lock: acquire succeeds when nobody holds the lock
CanAcquireAlways(lock) == TRUE
CanAcquire(lock) == lock = "free"

\* __len__, lines 50-51
QLen == Len(q_messages)

\* the raise of lines 46 and 80 names MessageQueueError, which module
\* message_queue does not bind (it has no import statement)
QueueNames == {}
QueueRaise(name) == IF name \in QueueNames THEN name ELSE "NameError"

Locked == q_class = "LockMessageQueue"

\* a MessageQueue is entered by one caller at a time
MayEnter(t) ==
    /\ q_pc[t] = "idle"
    /\ Locked \/ \A u \in QThreads : q_pc[u] = "idle"

QNoOutcome == [op |-> "none", exc |-> "none", value |-> "none"]

QFinish(t, op, exc, value) ==
    /\ q_pc' = [q_pc EXCEPT ![t] = "idle"]
    /\ q_local' = [q_local EXCEPT ![t] = "none"]
    /\ q_outcome' = [op |-> op, exc |-> exc, value |-> value]

QGoto(t, label) ==
    /\ q_pc' = [q_pc EXCEPT ![t] = label]
    /\ q_outcome' = QNoOutcome

QOthers == <<engineVars, ctorVars, regVars, transVars, msgVars, irisVars,
             dualVars>>

\* add_message(v), lines 45-47 and 79-81: the isinstance test
QAddCall(t, v) ==
    /\ MayEnter(t)
    /\ Len(q_added) + Cardinality({u \in Producers : q_pc[u] # "idle"}) < MaxAdds
    /\ IF IsInstance(v)
       THEN /\ QGoto(t, IF Locked THEN "add_acquire" ELSE "add_append")
            /\ q_local' = [q_local EXCEPT ![t] = v]
       ELSE QFinish(t, "add", QueueRaise("MessageQueueError"), "none")
    /\ UNCHANGED <<q_class, q_messages, q_lock, q_added, q_got, QOthers>>

\* LockMessageQueue.add_message, line 82: `with self._lock`
QAddAcquire(t) ==
    /\ q_pc[t] = "add_acquire"
    /\ CanAcquire(q_lock)
    /\ q_lock' = t
    /\ QGoto(t, "add_append")
    /\ UNCHANGED <<q_class, q_messages, q_local, q_added, q_got, QOthers>>

\* self._messages.append(message), lines 48 and 83
QAddAppend(t) ==
    /\ q_pc[t] = "add_append"
    /\ q_messages' = Append(q_messages, q_local[t])
    /\ q_added' = Append(q_added, q_local[t])
    /\ IF Locked
       THEN QGoto(t, "add_release") /\ UNCHANGED q_local
       ELSE QFinish(t, "add", "ok", "None")
    /\ UNCHANGED <<q_class, q_lock, q_got, QOthers>>

\* LockMessageQueue.add_message: the with block is left, the call returns
QAddRelease(t) ==
    /\ q_pc[t] = "add_release"
    /\ q_lock' = "free"
    /\ QFinish(t, "add", "ok", "None")
    /\ UNCHANGED <<q_class, q_messages, q_added, q_got, QOthers>>

\* get_message() is called
QGetCall(t) ==
    /\ MayEnter(t)
    /\ QGoto(t, IF Locked THEN "get_acquire" ELSE "get_check")
    /\ UNCHANGED <<q_class, q_messages, q_lock, q_local, q_added, q_got,
                   QOthers>>

\* LockMessageQueue.get_message, line 69: `with self._lock`
QGetAcquire(t) ==
    /\ q_pc[t] = "get_acquire"
    /\ CanAcquire(q_lock)
    /\ q_lock' = t
    /\ QGoto(t, "get_check")
    /\ UNCHANGED <<q_class, q_messages, q_local, q_added, q_got, QOthers>>

\* lines 34-35 and 70-71: the emptiness test and `return None`
QGetCheck(t) ==
    /\ q_pc[t] = "get_check"
    /\ IF IsEmpty(q_messages)
       THEN IF Locked
            THEN /\ QGoto(t, "get_release")
                 /\ q_local' = [q_local EXCEPT ![t] = "None"]
            ELSE QFinish(t, "get", "ok", "None")
       ELSE QGoto(t, "get_pop") /\ UNCHANGED q_local
    /\ UNCHANGED <<q_class, q_messages, q_lock, q_added, q_got, QOthers>>

\* lines 37 and 73: `return self._messages.pop(0)`; pop from an empty list
\* raises IndexError
QGetPop(t) ==
    /\ q_pc[t] = "get_pop"
    /\ IF q_messages = <<>>
       THEN /\ IF Locked
               THEN /\ QGoto(t, "get_release")
                    /\ q_local' = [q_local EXCEPT ![t] = "IndexError"]
               ELSE QFinish(t, "get", "IndexError", "none")
            /\ UNCHANGED <<q_messages, q_got>>
       ELSE LET p == Pop0(q_messages)
            IN  /\ q_messages' = p.rest
                /\ q_got' = Append(q_got, p.value)
                /\ IF Locked
                   THEN /\ QGoto(t, "get_release")
                        /\ q_local' = [q_local EXCEPT ![t] = p.value]
                   ELSE QFinish(t, "get", "ok", p.value)
    /\ UNCHANGED <<q_class, q_lock, q_added, QOthers>>

\* LockMessageQueue.get_message: the with block is left, the call returns
\* (or the IndexError raised inside the block goes on to the caller)
QGetRelease(t) ==
    /\ q_pc[t] = "get_release"
    /\ q_lock' = "free"
    /\ IF q_local[t] = "IndexError"
       THEN QFinish(t, "get", "IndexError", "none")
       ELSE QFinish(t, "get", "ok", q_local[t])
    /\ UNCHANGED <<q_class, q_messages, q_added, q_got, QOthers>>

---------------------------------------------------------------------------
(* Messages: BaseMessage.__init__, TextMessage.to_binary / from_binary     *)

NONBINARY == 0
BINARY == 1

\* text payloads: ASCII, non-ASCII, and a lone surrogate (which UTF-8
\* cannot encode); byte payloads: their encodings and a sequence that is
\* not UTF-8
Texts == {"ping", "e_acute", "lone_surrogate"}
ByteStrings == {"b_ping", "b_c3a9", "b_ff"}
Addresses == {"a1", "a2"}

\* payload.encode('UTF-8'), line 76
Encode(text) ==
    CASE text = "ping"    -> "b_ping"
      [] text = "e_acute" -> "b_c3a9"
      [] OTHER            -> "UnicodeEncodeError"

\* payload.decode("UTF-8"), line 94
Decode(bytes) ==
    CASE bytes = "b_ping" -> "ping"
      [] bytes = "b_c3a9" -> "e_acute"
      [] OTHER            -> "UnicodeDecodeError"

\* names bound in module message: its imports and its two classes
MessageNames == {"MessageInitError", "MessageEncodingError",
                 "MessageDecodingError", "utils", "BaseMessage",
                 "TextMessage"}
MessageBound(name) == name \in MessageNames

\* a message as _init_nonbinary / _init_binary are written to leave it
\* (lines 105-107 and 111-113)
WellFormed ==
    [payload : Texts, address : Addresses, mode : {NONBINARY}]
    \cup [payload : ByteStrings, address : Addresses, mode : {BINARY}]

\* TextMessage.to_binary(message), lines 73-84: the exception raised and
\* the message afterwards; the test of line 73 reads the global `Message`
ToBinaryResult(m) ==
    IF ~MessageBound("Message") THEN [exc |-> "NameError", msg_obj |-> m]
    ELSE IF m.mode # NONBINARY
    THEN [exc |-> "MessageEncodingError", msg_obj |-> m]
    ELSE IF m.payload \notin Texts
    THEN [exc |-> "AttributeError", msg_obj |-> m]
    ELSE IF Encode(m.payload) = "UnicodeEncodeError"
    THEN [exc |-> "MessageEncodingError", msg_obj |-> m]
    ELSE [exc |-> "ok",
          msg_obj |-> [m EXCEPT !.payload = Encode(@), !.mode = BINARY]]

\* TextMessage.from_binary(message), lines 92-102
FromBinaryResult(m) ==
    IF ~MessageBound("Message") THEN [exc |-> "NameError", msg_obj |-> m]
    ELSE IF m.mode # BINARY
    THEN [exc |-> "MessageDecodingError", msg_obj |-> m]
    ELSE IF m.payload \notin ByteStrings
    THEN [exc |-> "AttributeError", msg_obj |-> m]
    ELSE IF Decode(m.payload) = "UnicodeDecodeError"
    THEN [exc |-> "MessageDecodingError", msg_obj |-> m]
    ELSE [exc |-> "ok",
          msg_obj |-> [m EXCEPT !.payload = Decode(@), !.mode = NONBINARY]]

MessageClasses == {"BaseMessage", "TextMessage"}

\* cls(payload, host, port): TextMessage derives from nothing and defines
\* no __init__, so the call raises TypeError; BaseMessage.__init__ (lines
\* 41-49) builds the text of its first error with str(host, str(port)),
\* a TypeError, rejects an empty payload, and ends in the _init_binary /
\* _init_nonbinary of lines 51-55
ConstructExc(cls, payload, valid_address) ==
    IF cls = "TextMessage" THEN "TypeError"
    ELSE IF ~valid_address THEN "TypeError"
    ELSE IF payload = "" THEN "MessageInitError"
    ELSE "NotImplementedError"

MsgOthers == <<engineVars, ctorVars, regVars, transVars, queueVars,
              irisVars, dualVars>>

ToBinary ==
    LET r == ToBinaryResult(msg_obj)
    IN  /\ msg_obj' = r.msg_obj
        /\ msg_outcome' = [op |-> "to_binary", exc |-> r.exc, arg |-> "message"]
        /\ UNCHANGED <<msg_orig, MsgOthers>>

FromBinary ==
    LET r == FromBinaryResult(msg_obj)
    IN  /\ msg_obj' = r.msg_obj
        /\ msg_outcome' = [op |-> "from_binary", exc |-> r.exc,
                           arg |-> "message"]
        /\ UNCHANGED <<msg_orig, MsgOthers>>

\* a construction attempt: it never yields an object
MsgConstruct(cls, payload, valid_address) ==
    /\ msg_outcome' = [op |-> cls, exc |-> ConstructExc(cls, payload, valid_address),
                       arg |-> payload]
    /\ UNCHANGED <<msg_obj, msg_orig, MsgOthers>>

---------------------------------------------------------------------------
(* Iris: send_message and receive_message over the four queues             *)

\* names bound in module iris by its import statements.  `Message` and
\* `Engine` are named there too, but no module of the package defines them
IrisNames == {"socket", "time", "threading", "MessageQueue", "Translator",
              "IrisBindingError", "IrisSendingError", "MessageInitError",
              "IrisError", "utils"}
IrisBound(name) == name \in IrisNames

\* payloads handed to send_message; the empty one cannot make a message
IrisPayloads == {"p1", "p2", ""}

\* send_message(payload, host, port), lines 98-106: the exception raised
\* ("ok": a message was built and line 108 is reached)
IrisSendExc(payload, valid_address) ==
    IF ~valid_address THEN "IrisSendingError"
    ELSE IF ~IrisBound("Message") THEN "NameError"
    ELSE IF payload = "" THEN "IrisSendingError"
    ELSE "ok"

IrisNoOutcome == [op |-> "none", exc |-> "none", value |-> "none",
                  arg |-> "none"]

IrisOthers == <<engineVars, ctorVars, regVars, transVars, queueVars, msgVars,
                dualVars>>

\* send_message: line 108 adds the message to self._inc_mq
IrisSendMessage(payload, valid_address) ==
    LET exc == IrisSendExc(payload, valid_address)
    IN  /\ iris_inc_mq' = IF exc = "ok" THEN Append(iris_inc_mq, payload)
                          ELSE iris_inc_mq
        /\ iris_outcome' = [op |-> "send_message", exc |-> exc,
                            value |-> "None", arg |-> payload]
        /\ UNCHANGED <<iris_inc_mq_b, iris_out_mq, iris_out_mq_b, IrisOthers>>

\* receive_message, lines 121-124
IrisReceiveMessage ==
    /\ iris_inc_mq' = QueueRest(iris_inc_mq)
    /\ iris_outcome' = [op |-> "receive_message", exc |-> "ok",
                        value |-> QueueHead(iris_inc_mq), arg |-> "none"]
    /\ UNCHANGED <<iris_inc_mq_b, iris_out_mq, iris_out_mq_b, IrisOthers>>

\* the engine's receive step hands a message from the network to the
\* inbound wire-level queue (inc_queue=self._inc_mq_b, line 75)
IrisWireArrives(payload) ==
    /\ Len(iris_inc_mq_b) < MaxPending
    /\ iris_inc_mq_b' = Append(iris_inc_mq_b, payload)
    /\ iris_outcome' = IrisNoOutcome
    /\ UNCHANGED <<iris_inc_mq, iris_out_mq, iris_out_mq_b, IrisOthers>>

\* the "Decoding" translation moves a message from self._inc_mq_b to
\* self._inc_mq (line 83)
IrisDecoded ==
    /\ iris_inc_mq_b # <<>>
    /\ Len(iris_inc_mq) < MaxPending
    /\ iris_inc_mq' = Append(iris_inc_mq, Head(iris_inc_mq_b))
    /\ iris_inc_mq_b' = Tail(iris_inc_mq_b)
    /\ iris_outcome' = IrisNoOutcome
    /\ UNCHANGED <<iris_out_mq, iris_out_mq_b, IrisOthers>>

---------------------------------------------------------------------------
(* Initial states and specifications                                       *)

\* a SequentialUDPEngine as __init__ is written to leave it (line 116):
\* CREATED, endpoints open, no _run_flag attribute yet; a ThreadedUDPEngine
\* likewise
EngineInitial ==
    /\ status = CREATED
    /\ run_flag = "UNSET"
    /\ pc = [t \in Callers |-> "idle"]
    /\ out_source = <<>>
    /\ inc_dest = <<>>
    /\ net_in = <<>>
    /\ wire = <<>>
    /\ closed = [e \in {"L", "S"} |-> 0]
    /\ outcome = NoOutcome
    /\ th_status = CREATED

\* a ThreadedUDPEngine as BaseUDPEngine.__init__ leaves it: no flag
\* attribute exists yet, no _run was called
DualInitial ==
    /\ th_run_flag = "UNSET"
    /\ th_send_flag = "UNSET"
    /\ th_rcv_flag = "UNSET"
    /\ th_pc = "idle"
    /\ act_pc = [a \in Activities |-> "none"]
    /\ act_exc = [a \in Activities |-> "none"]
    /\ th_outcome = NoOutcome

\* before any construction attempt: fresh sockets are blocking
CtorInitial ==
    /\ ctor = [cls |-> "none", listen |-> "None", send |-> "None",
               inc_ok |-> FALSE, out_ok |-> FALSE, obj |-> Unbuilt]
    /\ blocking = [e \in Sockets |-> TRUE]

\* Translator.__init__, line 41: an empty registry
RegInitial ==
    /\ operations = <<>>
    /\ reg_call = [op |-> "none", key |-> "none", exc |-> "none"]

\* Translator.__init__, line 42, and the queues handed to it, empty
TransInitial ==
    /\ tr_status = T_CREATED
    /\ tr_run_flag = "UNSET"
    /\ tr_pc = [t \in TwoCallers |-> "idle"]
    /\ tr_todo = [t \in TwoCallers |-> {}]
    /\ tr_op = [t \in TwoCallers |-> "none"]
    /\ tr_message = [t \in TwoCallers |-> "none"]
    /\ queues = [q \in {"q1", "q2"} |-> <<>>]
    /\ tr_outcome = NoOutcome

\* MessageQueue.__init__, lines 27-28; LockMessageQueue.__init__, line 63
QueueInitial ==
    /\ q_class = "MessageQueue"
    /\ q_messages = <<>>
    /\ q_lock = "free"
    /\ q_pc = [t \in QThreads |-> "idle"]
    /\ q_local = [t \in QThreads |-> "none"]
    /\ q_added = <<>>
    /\ q_got = <<>>
    /\ q_outcome = QNoOutcome

\* one text message
MsgInitial ==
    /\ msg_obj = [payload |-> "ping", address |-> "a1", mode |-> NONBINARY]
    /\ msg_orig = msg_obj
    /\ msg_outcome = [op |-> "none", exc |-> "none", arg |-> "none"]

\* Iris._initialize_message_queues, lines 63-66: four empty queues
IrisInitial ==
    /\ iris_inc_mq = <<>>
    /\ iris_inc_mq_b = <<>>
    /\ iris_out_mq = <<>>
    /\ iris_out_mq_b = <<>>
    /\ iris_outcome = IrisNoOutcome

Init ==
    /\ EngineInitial
    /\ send_is_listen \in BOOLEAN
    /\ CtorInitial
    /\ RegInitial
    /\ TransInitial
    /\ QueueInitial
    /\ MsgInitial
    /\ IrisInitial
    /\ DualInitial

\* the steps a thread takes inside a call it has begun
ThreadStep(t) ==
    \/ StartSetFlag(t) \/ RunCheck(t) \/ RunSetStatus(t) \/ LoopTest(t)
    \/ Send(t) \/ Receive(t) \/ RunSetStopped(t)
    \/ StopClear(t) \/ StopReturn(t)
    \/ ShutdownStopCheck(t) \/ ShutdownStopClear(t) \/ ShutdownStopReturn(t)
    \/ ShutdownCheck(t) \/ ShutdownCloseListen(t) \/ ShutdownCloseSend(t)
    \/ ShutdownSetStatus(t)

\* the public calls a thread may begin on the SequentialUDPEngine
SequentialCall(t) == StartCall(t) \/ StopCall(t) \/ ShutdownCall(t)

\* the public calls a thread may begin on the ThreadedUDPEngine
ThreadedCall(t) == ThreadedStart(t) \/ ThreadedStop(t) \/ ThreadedShutdown(t)

Environment ==
    \/ \E m \in Messages : AppPut(m)
    \/ \E d \in Messages : DatagramArrives(d)

\* two caller threads drive both engines
Next ==
    \/ \E t \in TwoCallers : SequentialCall(t) \/ ThreadedCall(t) \/ ThreadStep(t)
    \/ Environment

Spec == Init /\ [][Next]_vars

\* threads are scheduled fairly: a thread inside a call takes its next step
FairSpec == Spec /\ \A t \in TwoCallers : WF_vars(ThreadStep(t))

\* three caller threads drive the SequentialUDPEngine
RaceNext ==
    \/ \E t \in Callers : SequentialCall(t) \/ ThreadStep(t)
    \/ Environment

RaceSpec == Init /\ [][RaceNext]_vars

CtorNext ==
    \E cls \in EngineClasses, l \in Endpoints, s \in Endpoints \cup {"None"},
       d \in BOOLEAN, o \in BOOLEAN : Construct(cls, l, s, d, o)

CtorSpec == Init /\ [][CtorNext]_vars

RegNext ==
    \/ \E i \in QueueArgs, o \in QueueArgs, f \in OperationArgs, k \in KeyArgs :
          RegisterOperation(i, o, f, k) \/ AddOperation(i, o, f, k)
    \/ \E k \in KeyArgs : DeregisterOperation(k)

RegSpec == Init /\ [][RegNext]_vars

\* the steps a thread takes inside a translator call it has begun
TrThreadStep(t) ==
    \/ TrStartSetFlag(t) \/ TrRunCheck(t) \/ TrRunSetStatus(t)
    \/ TrLoopTest(t) \/ TrVisitGet(t) \/ TrApply(t) \/ TrRunSetStopped(t)
    \/ TrStopClear(t) \/ TrStopWait(t)

\* operations are registered while no thread is inside the translator (the
\* registry is not to be changed under a running loop)
TrRegister ==
    /\ \A t \in TwoCallers : tr_pc[t] = "idle"
    /\ \E k \in {"k1", "k2"} : AddOperation("q1", "q2", "fn", k)

\* two threads call start() and stop() on one Translator; its operations
\* translate from queue q1, which a producer feeds, into queue q2, which a
\* consumer drains
TransNext ==
    \/ \E t \in TwoCallers : TrStartCall(t) \/ TrStopCall(t) \/ TrThreadStep(t)
    \/ TrRegister
    \/ \E m \in TransMsgs : TrPut("q1", m)
    \/ TrTake("q2")

\* the engine plays no part in the translator's specification
TransInit == Init /\ ~send_is_listen

TransSpec == TransInit /\ [][TransNext]_vars

\* the queue is of either class; the other components play no part
QueueInit ==
    /\ EngineInitial /\ send_is_listen = FALSE
    /\ CtorInitial /\ RegInitial /\ TransInitial /\ MsgInitial /\ IrisInitial
    /\ DualInitial
    /\ q_class \in QueueClasses
    /\ q_messages = <<>>
    /\ q_lock = "free"
    /\ q_pc = [t \in QThreads |-> "idle"]
    /\ q_local = [t \in QThreads |-> "none"]
    /\ q_added = <<>>
    /\ q_got = <<>>
    /\ q_outcome = QNoOutcome

\* the steps a thread takes inside a queue call it has begun
QStep(t) ==
    \/ QAddAcquire(t) \/ QAddAppend(t) \/ QAddRelease(t)
    \/ QGetAcquire(t) \/ QGetCheck(t) \/ QGetPop(t) \/ QGetRelease(t)

QueueNext ==
    \/ \E t \in Producers, v \in QueueArgsAdd : QAddCall(t, v)
    \/ \E t \in Consumers : QGetCall(t)
    \/ \E t \in QThreads : QStep(t)

QueueSpec == QueueInit /\ [][QueueNext]_vars

\* the message is any message the two _init methods are written to build
MsgInit ==
    /\ EngineInitial /\ send_is_listen = FALSE
    /\ CtorInitial /\ RegInitial /\ TransInitial /\ QueueInitial /\ IrisInitial
    /\ DualInitial
    /\ msg_obj \in WellFormed
    /\ msg_orig = msg_obj
    /\ msg_outcome = [op |-> "none", exc |-> "none", arg |-> "none"]

MsgNext ==
    \/ ToBinary
    \/ FromBinary
    \/ \E cls \in MessageClasses, p \in Texts \cup ByteStrings \cup {""},
          v \in BOOLEAN : MsgConstruct(cls, p, v)

MsgSpec == MsgInit /\ [][MsgNext]_vars

IrisNext ==
    \/ \E p \in IrisPayloads, v \in BOOLEAN : IrisSendMessage(p, v)
    \/ IrisReceiveMessage
    \/ \E p \in IrisPayloads \ {""} : IrisWireArrives(p)
    \/ IrisDecoded

\* the engine of the other specifications plays no part here
IrisInit == Init /\ ~send_is_listen

IrisSpec == IrisInit /\ [][IrisNext]_vars

\* the steps of _run, of its two activities, and of the driver of its flag
DualRunStep ==
    \/ ThSetSendFlag \/ ThSetRcvFlag \/ ThStartSend \/ ThStartRcv
    \/ ThSetRunning \/ ThSupervise \/ ThClearSend \/ ThClearRcv
    \/ ThJoinSend \/ ThJoinRcv \/ ThSetStopped

DualNext ==
    \/ ThRunCall
    \/ DualRunStep
    \/ \E a \in Activities : ActCheck(a) \/ ActLoop(a)
    \/ \E v \in {"TRUE", "FALSE"} : ThSetRunFlag(v)

\* the other components play no part in the dual-activity run
DualInit == Init /\ ~send_is_listen

DualSpec == DualInit /\ [][DualNext]_vars

---------------------------------------------------------------------------
(* Claims                                                                  *)

\* what a rejected lifecycle call must leave alone
EngineFrame == <<status, run_flag, out_source, inc_dest>>

\* C1: start() while RUNNING or SHUTDOWN raises EngineStartError, stop()
\* while not RUNNING raises EngineStopError, and neither changes the status,
\* the run flag or a queue; start() from CREATED or STOPPED is accepted and
\* its _run sets the status RUNNING.
C1_MisuseRejected ==
    [][\A t \in TwoCallers :
        /\ (StartCall(t) /\ status \in {RUNNING, SHUTDOWN}) =>
              /\ outcome' = Done("start", "EngineStartError")
              /\ UNCHANGED EngineFrame
        /\ (StopCall(t) /\ status # RUNNING) =>
              /\ outcome' = Done("stop", "EngineStopError")
              /\ UNCHANGED EngineFrame
        /\ (StartCall(t) /\ status \in {CREATED, STOPPED}) =>
              pc'[t] = "start_set_flag"
        /\ RunSetStatus(t) => status' = RUNNING]_vars

\* C2: in the step in which stop() returns, the status is STOPPED and no
\* thread is inside the send/receive loop about to run a send or a receive
\* step (such a thread entered the loop before stop() returned).
C2_StopReturnsAfterLoopCeased ==
    [][\A t \in Callers :
        StopReturn(t) =>
            /\ status = STOPPED
            /\ \A u \in Callers : pc[u] \notin {"send", "receive"}]_vars

\* C3: under fair scheduling a stop() that was accepted (it found the
\* status RUNNING and cleared the flag) eventually returns, whatever the
\* outbound source holds and whatever arrives.
C3_StopEventuallyReturns ==
    \A t \in TwoCallers :
        (pc[t] = "stop_wait") ~> (pc[t] = "idle" /\ outcome = Done("stop", "ok"))

\* the status changes the lifecycle allows
AllowedMoves == {<<CREATED, RUNNING>>, <<RUNNING, STOPPED>>,
                 <<STOPPED, RUNNING>>, <<CREATED, SHUTDOWN>>,
                 <<STOPPED, SHUTDOWN>>}

\* C4: the status only moves along the allowed changes - in particular it
\* never leaves SHUTDOWN - and a start() that finds SHUTDOWN raises
\* EngineStartError, in every interleaving of the callers.
C4_ShutdownTerminal ==
    [][/\ status' # status => <<status, status'>> \in AllowedMoves
       /\ \A t \in TwoCallers :
            (StartCall(t) /\ status = SHUTDOWN) =>
                outcome' = Done("start", "EngineStartError")]_vars

\* C5: shutdown() that finds CREATED or STOPPED closes both endpoints and
\* then sets SHUTDOWN; from RUNNING it goes on only once stop() has seen
\* STOPPED; finding SHUTDOWN it raises EngineShutdownError and closes
\* nothing.
C5_ShutdownReleases ==
    [][\A t \in TwoCallers :
        /\ (ShutdownCheck(t) /\ status = SHUTDOWN) =>
              /\ outcome' = Done("shutdown", "EngineShutdownError")
              /\ closed' = closed
        /\ (ShutdownCheck(t) /\ status \in {CREATED, STOPPED}) =>
              pc'[t] = "sd_close_listen"
        /\ ShutdownStopReturn(t) => status = STOPPED
        /\ ShutdownSetStatus(t) =>
              /\ status' = SHUTDOWN
              /\ closed["L"] > 0 /\ closed[SendEndp] > 0]_vars

\* C6: a send step that finds a message, and a receive step that reads a
\* datagram from the open endpoint, never end the loop: the thread goes on
\* to the next statement of the loop and the status is unchanged.
C6_FailureContained ==
    [][\A t \in TwoCallers :
        /\ (Send(t) /\ out_source # <<>>) =>
              pc'[t] = "receive" /\ status' = status
        /\ (Receive(t) /\ net_in # <<>> /\ closed["L"] = 0) =>
              pc'[t] = "loop_test" /\ status' = status]_vars

\* C7: the ThreadedUDPEngine follows the SequentialUDPEngine's lifecycle:
\* start() from CREATED or STOPPED is accepted and makes the status
\* RUNNING, stop() from RUNNING makes it STOPPED, shutdown() from CREATED or
\* STOPPED makes it SHUTDOWN.
C7_ThreadedSameLifecycle ==
    [][\A t \in TwoCallers :
        /\ (ThreadedStart(t) /\ th_status \in {CREATED, STOPPED}) =>
              th_status' = RUNNING /\ outcome' = Done("th_start", "ok")
        /\ (ThreadedStop(t) /\ th_status = RUNNING) =>
              th_status' = STOPPED /\ outcome' = Done("th_stop", "ok")
        /\ (ThreadedShutdown(t) /\ th_status \in {CREATED, STOPPED}) =>
              th_status' = SHUTDOWN /\ outcome' = Done("th_shutdown", "ok")]_vars

\* the constructor arguments the contract accepts
ValidCtorArgs(c) ==
    /\ CheckEndpoint(c.listen) = "ok"
    /\ c.send = "None" \/ CheckEndpoint(c.send) = "ok"
    /\ c.inc_ok
    /\ c.out_ok

\* C8: a construction yields an engine in CREATED only for valid arguments;
\* for any other arguments it raises EngineInitError, has stored nothing on
\* the object and has reconfigured no endpoint.
C8_ConstructionAllOrNothing ==
    [][\A cls \in EngineClasses, l \in Endpoints, s \in Endpoints \cup {"None"},
          d \in BOOLEAN, o \in BOOLEAN :
        Construct(cls, l, s, d, o) =>
            /\ ctor'.obj.status = "CREATED" => ValidCtorArgs(ctor')
            /\ ~ValidCtorArgs(ctor') =>
                  /\ ctor'.obj = [Unbuilt EXCEPT !.exc = "EngineInitError"]
                  /\ blocking' = blocking]_vars

\* the registrations the contract accepts
ValidRegistration(ops, i, o, f, k) ==
    /\ HasQueueInterface(i)
    /\ HasQueueInterface(o)
    /\ f \in {"fn", "callable"}
    /\ Hashable(k)
    /\ k \notin DOMAIN ops

\* C9: register_operation changes the registry only by storing the triple
\* under a valid new key; when an argument is invalid or the key is already
\* registered it raises TranslatorRegError and leaves the registry as it was.
C9_RegisterChecked ==
    [][\A i \in QueueArgs, o \in QueueArgs, f \in OperationArgs, k \in KeyArgs :
        RegisterOperation(i, o, f, k) =>
            /\ operations' # operations =>
                  /\ ValidRegistration(operations, i, o, f, k)
                  /\ operations' = Store(operations, i, o, f, k)
            /\ ~ValidRegistration(operations, i, o, f, k) =>
                  /\ reg_call'.exc = "TranslatorRegError"
                  /\ operations' = operations]_vars

\* C10: deregister_operation(key) removes the triple under a registered key
\* and nothing else; for a key that is not registered it raises
\* TranslatorDeregError and leaves the registry as it was.
C10_DeregisterExact ==
    [][\A k \in KeyArgs :
        DeregisterOperation(k) =>
            IF Hashable(k) /\ k \in DOMAIN operations
            THEN /\ reg_call'.exc = "ok"
                 /\ operations' = [x \in DOMAIN operations \ {k} |-> operations[x]]
            ELSE /\ reg_call'.exc = "TranslatorDeregError"
                 /\ operations' = operations]_vars

\* the errors by which a transform reports that it cannot translate
TransformErrors == {"MessageEncodingError", "MessageDecodingError"}

\* C11: when the operation of a visit that took a message from the source
\* fails with an encoding or decoding error, the translator goes on: the thread stays in its pass (next
\* operation), the status is unchanged, and nothing is put into a queue
\* (the message taken from the source is dropped).
C11_TransformFailureContained ==
    [][\A t \in TwoCallers, r \in TransformErrors :
        (TrApplyWith(t, r) /\ tr_message[t] \in TransMsgs) =>
            /\ tr_pc'[t] = "tr_for"
            /\ tr_status' = tr_status
            /\ queues' = queues]_vars

\* the status changes the Translator's lifecycle allows
TrAllowedMoves == {<<T_CREATED, T_RUNNING>>, <<T_RUNNING, T_STOPPED>>,
                   <<T_STOPPED, T_RUNNING>>}

\* C12: the status moves only CREATED -> RUNNING -> STOPPED -> RUNNING;
\* start() that finds RUNNING and stop() that finds another status than
\* RUNNING fail and leave the status; start() from CREATED or STOPPED is
\* accepted and its _run sets RUNNING; stop() from RUNNING clears the flag
\* and its call ends only when the status is STOPPED, and ends normally.
C12_TranslatorLifecycle ==
    [][/\ tr_status' # tr_status => <<tr_status, tr_status'>> \in TrAllowedMoves
       /\ \A t \in TwoCallers :
            /\ (TrStartCall(t) /\ tr_status = T_RUNNING) =>
                  /\ tr_outcome'.op = "start" /\ tr_outcome'.exc # "ok"
                  /\ tr_status' = tr_status
            /\ (TrStartCall(t) /\ tr_status \in {T_CREATED, T_STOPPED}) =>
                  tr_pc'[t] = "tr_set_flag"
            /\ TrRunSetStatus(t) => tr_status' = T_RUNNING
            /\ (TrStopCall(t) /\ tr_status # T_RUNNING) =>
                  /\ tr_outcome'.op = "stop" /\ tr_outcome'.exc # "ok"
                  /\ tr_status' = tr_status
            /\ TrStopClear(t) => tr_run_flag' = "FALSE"
            /\ TrStopWait(t) =>
                  /\ tr_status = T_STOPPED
                  /\ tr_outcome' = Done("stop", "ok")]_vars

\* C17: to_binary of a text message succeeds and leaves a binary message
\* with the same address whose payload decodes to the text; from_binary
\* of the encoding of the message as built gives back that message:
\* payload, address and mode.
C17_RoundTrip ==
    [][/\ (ToBinary /\ msg_obj.mode = NONBINARY) =>
             /\ msg_outcome'.exc = "ok"
             /\ msg_obj'.mode = BINARY
             /\ msg_obj'.address = msg_obj.address
             /\ Decode(msg_obj'.payload) = msg_obj.payload
       /\ (/\ FromBinary
           /\ msg_obj.mode = BINARY
           /\ msg_orig.mode = NONBINARY
           /\ msg_obj.payload = Encode(msg_orig.payload)) =>
             /\ msg_outcome'.exc = "ok"
             /\ msg_obj' = msg_orig]_vars

ModeMatchesPayload(m) ==
    /\ m.mode = BINARY <=> m.payload \in ByteStrings
    /\ m.mode = NONBINARY <=> m.payload \in Texts

\* C18: before and after every call the mode is BINARY exactly when the
\* payload is a byte string and NONBINARY exactly when it is text;
\* to_binary of a binary message, or of a text that cannot be encoded,
\* raises MessageEncodingError, from_binary of a text message, or of bytes
\* that cannot be decoded, raises MessageDecodingError, and these calls
\* leave the message as it was.
C18_ModeConsistent ==
    [][/\ ModeMatchesPayload(msg_obj) /\ ModeMatchesPayload(msg_obj')
       /\ (/\ ToBinary
           /\ \/ msg_obj.mode = BINARY
              \/ Encode(msg_obj.payload) = "UnicodeEncodeError") =>
             /\ msg_outcome'.exc = "MessageEncodingError"
             /\ msg_obj' = msg_obj
       /\ (/\ FromBinary
           /\ \/ msg_obj.mode = NONBINARY
              \/ Decode(msg_obj.payload) = "UnicodeDecodeError") =>
             /\ msg_outcome'.exc = "MessageDecodingError"
             /\ msg_obj' = msg_obj]_vars

\* C19: send_message with a valid address and a payload appends that one
\* message to the outbound application-level queue and leaves the two
\* inbound queues as they were; with an invalid address or payload it
\* raises IrisSendingError and changes no queue.
C19_SendGoesOutbound ==
    [][\A p \in IrisPayloads, v \in BOOLEAN :
        (IrisSendMessage(p, v) /\ iris_outcome'.arg = p) =>
            IF v /\ p # ""
            THEN /\ iris_outcome'.exc = "ok"
                 /\ iris_out_mq' = Append(iris_out_mq, p)
                 /\ iris_inc_mq' = iris_inc_mq
                 /\ iris_inc_mq_b' = iris_inc_mq_b
            ELSE /\ iris_outcome'.exc = "IrisSendingError"
                 /\ UNCHANGED <<iris_inc_mq, iris_inc_mq_b, iris_out_mq,
                                iris_out_mq_b>>]_vars

\* C20: a visit that found the source empty (get_message returned None)
\* deposits nothing - no queue changes when its operation is applied - and
\* the thread goes on with its pass.
C20_EmptySourceNoDeposit ==
    [][\A t \in TwoCallers :
        (TrApply(t) /\ tr_message[t] = "None") =>
            /\ queues' = queues
            /\ tr_pc'[t] = "tr_for"]_vars

\* C13: the queue is FIFO: the messages appended, in the order of their
\* appends, are the messages get_message has returned, in the order it
\* returned them, followed by the messages still queued, in queue order;
\* and len(queue) is the number of accepted adds minus the number of
\* non-empty gets.
C13_QueueFIFO ==
    /\ q_added = q_got \o q_messages
    /\ QLen = Len(q_added) - Len(q_got)

\* a MessageQueue that returned two different messages in the order they
\* were added and still holds a third
C13_Witness ==
    /\ q_class = "MessageQueue"
    /\ q_got = <<"m1", "s1">>
    /\ q_messages = <<"m1">>

\* a thread inside get_message waits for nothing but the lock, and the
\* holder of the lock can always go on to release it
GetNeverWaits ==
    /\ \A t \in Consumers :
          \/ q_pc[t] \in {"get_check", "get_pop", "get_release"}
          \/ q_pc[t] = "get_acquire" /\ q_lock = "free"
          => ENABLED QStep(t)
    /\ \A t \in QThreads : q_lock = t => ENABLED QStep(t)

\* C14: get_message on an empty queue of either class returns None, leaves
\* the queue empty, raises nothing and waits for no message; on a
\* non-empty queue it returns the head and the queue left is the former
\* tail (the removed entry is gone from the list).
C14_GetOnEmpty ==
    /\ []GetNeverWaits
    /\ [][\A t \in Consumers :
            /\ (QGetCheck(t) /\ q_messages = <<>>) =>
                  /\ q_messages' = <<>>
                  /\ IF Locked THEN q_local'[t] = "None"
                     ELSE q_outcome' = [op |-> "get", exc |-> "ok",
                                        value |-> "None"]
            /\ (QGetCheck(t) /\ q_messages # <<>>) => q_pc'[t] = "get_pop"
            /\ QGetPop(t) =>
                  /\ q_messages # <<>>
                  /\ q_messages' = Tail(q_messages)
                  /\ IF Locked THEN q_local'[t] = Head(q_messages)
                     ELSE q_outcome' = [op |-> "get", exc |-> "ok",
                                        value |-> Head(q_messages)]
            /\ QGetRelease(t) =>
                  q_outcome' = [op |-> "get", exc |-> "ok",
                                value |-> q_local[t]]]_vars

\* a LockMessageQueue that has handed out a message and has just answered
\* None to a get_message on the empty queue
C14_Witness ==
    /\ Locked
    /\ q_got # <<>>
    /\ q_messages = <<>>
    /\ q_outcome = [op |-> "get", exc |-> "ok", value |-> "None"]

\* C15: add_message of a value that is no instance of msg_class (or of a
\* subclass) raises MessageQueueError and leaves the list as it was; an
\* instance is accepted and appended at the tail.
C15_AddChecked ==
    [][\A t \in Producers :
        /\ \A v \in QueueArgsAdd :
              QAddCall(t, v) =>
                  IF IsInstance(v)
                  THEN q_pc'[t] \in {"add_acquire", "add_append"}
                  ELSE /\ q_outcome' = [op |-> "add", value |-> "none",
                                        exc |-> "MessageQueueError"]
                       /\ q_messages' = q_messages
        /\ QAddAppend(t) => q_messages' = Append(q_messages, q_local[t])]_vars

Count(seq, m) == Cardinality({i \in 1..Len(seq) : seq[i] = m})

\* the statements a LockMessageQueue runs under its lock
Critical == {"add_append", "add_release", "get_check", "get_pop", "get_release"}

\* C16: on a LockMessageQueue used by concurrent producers and consumers,
\* every appended message has been returned exactly once or is still
\* queued; when the queue is empty as many messages were returned as were
\* appended; at most one thread is between acquiring and releasing the
\* lock; and get_message never raises.
C16_LockQueueConserves ==
    Locked =>
        /\ \A m \in QueueArgsAdd :
              Count(q_added, m) = Count(q_got, m) + Count(q_messages, m)
        /\ q_messages = <<>> => Len(q_got) = Len(q_added)
        /\ Cardinality({t \in QThreads : q_pc[t] \in Critical}) <= 1
        /\ \A t \in QThreads : q_pc[t] \in Critical => q_lock = t
        /\ q_outcome.op = "get" => q_outcome.exc = "ok"

\* both producers are inside add_message while a consumer asks for the
\* lock, after a message has already been handed out
C16_Witness ==
    /\ Locked
    /\ q_pc["p1"] = "add_acquire"
    /\ q_pc["p2"] = "add_append"
    /\ q_pc["c1"] = "get_acquire"
    /\ q_got # <<>>

\* C21: a pass visits every registered operation once: it begins with all
\* registered keys to visit and each visit takes one of them off; a visit
\* removes the head of its source and nothing else; and the visit that took
\* a message appends exactly one message to its destination - the
\* translation of the message taken (a message keeps its name through the
\* translation, as it keeps its address) - and goes on with the pass.
C21_PassTranslatesHead ==
    [][\A t \in TwoCallers :
        /\ (TrLoopTest(t) /\ tr_run_flag = "TRUE") =>
              tr_todo'[t] = DOMAIN operations
        /\ (TrVisitGet(t) /\ tr_todo[t] # {}) =>
              \E k \in tr_todo[t] :
                 /\ tr_todo'[t] = tr_todo[t] \ {k}
                 /\ queues' = [queues EXCEPT
                                 ![operations[k].input] = QueueRest(@)]
        /\ (TrApply(t) /\ tr_message[t] \in TransMsgs) =>
              /\ queues' = [queues EXCEPT ![operations[tr_op[t]].output] =
                                             Append(@, tr_message[t])]
              /\ tr_pc'[t] = "tr_for"]_vars

\* C22: the destination receives the translations in the order in which
\* their originals left the source, none twice and none out of nothing:
\* whenever a thread of the translator changes the destination of its
\* visit, it appends at the tail the translation of the message this visit
\* took from the source (a message keeps its name through the translation),
\* and it changes no other queue; the producer only appends to the source
\* and the consumer only removes the head of the destination.
C22_OrderPreserved ==
    [][/\ \A t \in TwoCallers :
            (TrApply(t) /\ queues' # queues) =>
                /\ tr_message[t] \in TransMsgs
                /\ queues' = [queues EXCEPT ![operations[tr_op[t]].output] =
                                               Append(@, tr_message[t])]
       /\ \A m \in TransMsgs :
            TrPut("q1", m) => queues' = [queues EXCEPT !["q1"] = Append(@, m)]
       /\ TrTake("q2") => queues' = [queues EXCEPT !["q2"] = Tail(@)]]_vars

\* C23: a receive step on the open endpoint that reads a datagram appends
\* to the inbound destination exactly one message, made of the datagram's
\* bytes and the sender's address, and the datagram is gone from the
\* endpoint; a receive step that finds no datagram returns at once without
\* error and leaves the inbound destination as it was.
C23_ReceiveDeposits ==
    [][\A t \in TwoCallers :
        /\ (Receive(t) /\ closed["L"] = 0 /\ net_in # <<>>) =>
              /\ inc_dest' = Append(inc_dest, Head(net_in))
              /\ net_in' = Tail(net_in)
              /\ pc'[t] = "loop_test"
        /\ (Receive(t) /\ closed["L"] = 0 /\ net_in = <<>>) =>
              /\ inc_dest' = inc_dest
              /\ pc'[t] = "loop_test"]_vars

\* C24: a send step removes at most one message from the outbound source;
\* on an empty source it transmits nothing, changes no queue, raises
\* nothing and goes on; with a message present it removes the head and
\* transmits exactly that message - its payload to its address.
C24_SendTransmitsHead ==
    [][\A t \in TwoCallers :
        /\ Send(t) => Len(out_source') >= Len(out_source) - 1
        /\ (Send(t) /\ out_source = <<>>) =>
              /\ UNCHANGED <<out_source, inc_dest, wire>>
              /\ pc'[t] = "receive"
        /\ (Send(t) /\ out_source # <<>>) =>
              /\ out_source' = Tail(out_source)
              /\ wire' = Append(wire, Head(out_source))]_vars

\* an activity thread that was started and has not terminated
Alive(a) == act_pc[a] \in {"check", "loop"}

\* the statements of _run between starting the activities of a new run
\* cycle and setting the status RUNNING (lines 310-311)
CycleBegins == {"th_start_rcv", "th_set_running"}

\* C25: _run sets the status STOPPED only when the send flag and the
\* receive flag are cleared and both activities of its run cycle have
\* terminated; and the status is never STOPPED while an activity of the
\* cycle that set it is alive (the activities alive under STOPPED are those
\* a new cycle has just started, before it sets RUNNING).
C25_StoppedAfterJoin ==
    /\ [][ThSetStopped =>
            /\ th_send_flag = "FALSE" /\ th_rcv_flag = "FALSE"
            /\ \A a \in Activities : act_pc[a] = "dead"]_vars
    /\ [](th_status = STOPPED /\ th_pc \notin CycleBegins =>
            \A a \in Activities : ~Alive(a))

\* a run cycle has ended in STOPPED after both of its activities had been
\* started and had entered their loops
C25_Witness ==
    /\ th_status = STOPPED
    /\ th_outcome = Done("_run", "ok")
    /\ \A a \in Activities : act_pc[a] = "dead" /\ act_exc[a] = "AttributeError"

\* C26: once the run flag is cleared, the loop thread only finishes the
\* iteration it is in: its send step goes on to the receive step, its
\* receive step goes on to the loop test, the loop test leaves the loop
\* (no further iteration is begun), and the thread then sets the status
\* STOPPED.
C26_StopAtIterationBoundary ==
    [][\A t \in TwoCallers :
        run_flag = "FALSE" =>
            /\ Send(t) => pc'[t] = "receive"
            /\ Receive(t) => pc'[t] = "loop_test"
            /\ LoopTest(t) => pc'[t] = "run_set_stopped"
            /\ RunSetStopped(t) => status' = STOPPED]_vars

\* C27: every iteration of the running loop is one send step followed by
\* one receive step: the loop test goes to the send step, the send step to
\* the receive step, the receive step on the open endpoint back to the
\* loop test; a receive step that finds no datagram is never held up; and,
\* threads being scheduled fairly, while the status is RUNNING a message
\* waiting in the outbound source is eventually taken from it.
C27_SendNotStarved ==
    /\ [][\A t \in TwoCallers :
            /\ (LoopTest(t) /\ run_flag = "TRUE") => pc'[t] = "send"
            /\ Send(t) => pc'[t] = "receive"
            /\ (Receive(t) /\ closed["L"] = 0) => pc'[t] = "loop_test"]_vars
    /\ [](\A t \in TwoCallers :
            pc[t] = "receive" /\ net_in = <<>> => ENABLED Receive(t))
    /\ (status = RUNNING /\ out_source # <<>>)
           ~> (out_source = <<>> \/ status # RUNNING)

\* the statements of _run from the switch to RUNNING to the switch to
\* STOPPED: a thread at one of them has entered the run loop
InLoop == {"run_set_status", "loop_test", "send", "receive",
           "run_set_stopped"}

\* C28: at most one thread is inside the run loop of the engine at any
\* time, and a start() that begins while another thread is already past
\* the status test of its own start() fails with EngineStartError.
C28_SingleLoop ==
    /\ [](Cardinality({t \in TwoCallers : pc[t] \in InLoop}) <= 1)
    /\ [][\A t \in TwoCallers :
            (/\ StartCall(t)
             /\ \E u \in TwoCallers \ {t} :
                   pc[u] \in InLoop \cup {"start_set_flag", "run_check"}) =>
                outcome' = Done("start", "EngineStartError")]_vars

\* C29: an endpoint is closed only by shutdown() - the only steps that
\* change the count of close() calls are the two closing statements of
\* shutdown() - and each endpoint the engine owns is closed at most once:
\* once shutdown() is through, exactly once, in two-socket mode and in
\* single-socket mode.
C29_ClosedOnce ==
    /\ [][closed' # closed =>
            \E t \in TwoCallers :
               ShutdownCloseListen(t) \/ ShutdownCloseSend(t)]_vars
    /\ [](\A e \in {"L", SendEndp} : closed[e] <= 1)
    /\ [][\A t \in TwoCallers :
            ShutdownSetStatus(t) =>
               \A e \in {"L", SendEndp} : closed[e] = 1]_vars

===========================================================================
